---- MODULE Spec2Model ----
(***************************************************************************)
(* A model of two glue layers of xrmocap:                                  *)
(*   - MediapipeEstimator (infer_single_img, infer_array, infer_frames)    *)
(*   - BottomUpMviewMpersonDataset (__getitem__, load_perception_2d)       *)
(*                                                                         *)
(* Numbers.  Pixel coordinates are fixed-point numbers with CoordDen       *)
(* fractional steps per pixel; normalized coordinates (a landmark of the   *)
(* pose model, a joint candidate of kps2d_paf.json) are fixed-point        *)
(* numbers with NormDen steps in [0, 1].  A keypoint of the estimator, a   *)
(* product of the two plus a pixel coordinate, is kept in units of         *)
(* 1 / (CoordDen * NormDen) pixel; a stored joint candidate in units of    *)
(* 1 / NormDen pixel.  Scores and thresholds are integers on a common      *)
(* scale; only their order matters.                                        *)
(***************************************************************************)
EXTENDS Integers, Sequences, FiniteSets, TLC

VARIABLES
    bbox_thr,      \* MediapipeEstimator.bbox_thr
    image_array,   \* the frames: image_array[i] is what cv2.imread / the caller gives
    bbox_list,     \* the caller's bboxes, shape (n_frame, n_human, 5)
    ret,           \* the last call of the estimator and what it returned
    shuffled,            \* BottomUpMviewMpersonDataset.shuffled
    image_list,          \* image_list[scene][frame]: the image paths of the views
    fisheye_params,      \* fisheye_params[scene][view]: [width, height] of the camera
    gt3d,                \* gt3d[scene][frame]: the kps3d of the frame
    index_mapping,       \* index -> <<scene_idx, frame_idx, end_of_clip>>
    kps2d_paf_json,      \* kps2d_paf_json[scene]: scene_<i>/kps2d_paf.json
    percep_keypoints2d,  \* percep_keypoints2d[scene][view][frame]
    n_views,             \* n_views, as load_perception_2d leaves it
    item                 \* the last __getitem__ and what it returned

est_vars == <<bbox_thr, image_array, bbox_list, ret>>
ds_vars == <<shuffled, image_list, fisheye_params, gt3d, index_mapping,
             kps2d_paf_json, percep_keypoints2d, n_views, item>>
vars == <<est_vars, ds_vars>>

----------------------------------------------------------------------------
(* Bounds *)

MaxFrames == 3      \* frames of one estimator call
MaxBoxes == 2       \* bboxes of one estimator call, all frames together
MaxBatch == 3       \* largest load_batch_size tried
MaxCoord == 2       \* largest pixel coordinate of a bbox corner
ImgWidth == 1       \* width of the image of the single-image calls
ImgHeight == 2      \* height of the image of the single-image calls
CoordDen == 2       \* fixed-point steps per pixel
NormDen == 2        \* fixed-point steps of a normalized coordinate
NKps == 2           \* keypoints of the convention (33 for mediapipe_body)
MaxScenes == 2      \* scenes of the dataset
MaxViews == 2       \* cameras of a scene
MaxSceneFrames == 2 \* frames of a scene
MaxCands == 2       \* joint candidates of the detection drawn freely

Scores == {-1, 0, 1}        \* bbox scores tried
Thresholds == {-1, 0, 1}    \* bbox_thr values tried
DefaultBboxThr == 0         \* bbox_thr: float = 0.0

Min(a, b) == IF a < b THEN a ELSE b
Max(a, b) == IF a > b THEN a ELSE b

NoPose == <<>>              \* result_mp.pose_landmarks is None: no landmark
None == "None"
NoBatch == <<>>             \* load_batch_size=None; <<n>> is load_batch_size=n

----------------------------------------------------------------------------
(* numpy / Python primitives *)

\* int(c) of a non-negative fixed-point pixel coordinate: truncation.
PyInt(c) == c \div CoordDen

\* The shape of arr[a:b] along an axis of length n, for 0 <= a, b.
SliceLen(a, b, n) == Max(0, Min(b, n) - Min(a, n))

\* range(0, n, step) for step > 0.
RECURSIVE PyRange(_, _, _)
PyRange(start, n, step) ==
    IF start >= n THEN <<>> ELSE <<start>> \o PyRange(start + step, n, step)

\* seq[a:b] with 0-based a, b as Python slices a list.
PySlice(seq, a, b) ==
    LET lo == Min(a, Len(seq))
        hi == Min(b, Len(seq))
    IN  IF lo >= hi THEN <<>> ELSE SubSeq(seq, lo + 1, hi)

\* np.zeros(shape=(n, n_kps, 3)) and np.zeros(shape=(n, 5))
ZeroKps == [k \in 1..NKps |-> <<0, 0, 0>>]
ZeroBbox == <<0, 0, 0, 0, 0>>

----------------------------------------------------------------------------
(* The pose model.  An image is [shape |-> <<height, width>>, pose |-> f]  *)
(* where f maps a crop <<row0, row1, col0, col1>> to what                  *)
(* pose_model.process finds in it: NoPose or a sequence of landmarks       *)
(* [x, y, visibility].                                                     *)

PoseProcess(img_arr, crop) ==
    IF crop \in DOMAIN img_arr.pose THEN img_arr.pose[crop] ELSE NoPose

\* img_arr[int(bbox[1]):int(bbox[3]), int(bbox[0]):int(bbox[2])]
Crop(bbox) == <<PyInt(bbox[2]), PyInt(bbox[4]), PyInt(bbox[1]), PyInt(bbox[3])>>

CropShape(img_arr, bbox) ==
    << SliceLen(PyInt(bbox[2]), PyInt(bbox[4]), img_arr.shape[1]),
       SliceLen(PyInt(bbox[1]), PyInt(bbox[3]), img_arr.shape[2]) >>

----------------------------------------------------------------------------
(* MediapipeEstimator.infer_single_img *)

BboxPassesAtThreshold(bbox, thr) == bbox[5] >= thr

\* if bbox[4] > self.bbox_thr
BboxPasses(bbox, thr) == bbox[5] > thr

RescaleLandmarkSwapped(landmark, shape, bbox) ==
    << landmark.x * shape[1] * CoordDen + bbox[1] * NormDen,
       landmark.y * shape[2] * CoordDen + bbox[2] * NormDen,
       landmark.visibility >>

\* [landmark.x * img.shape[1] + bbox[0], landmark.y * img.shape[0] + bbox[1],
\*  landmark.visibility]
RescaleLandmark(landmark, shape, bbox) ==
    << landmark.x * shape[2] * CoordDen + bbox[1] * NormDen,
       landmark.y * shape[1] * CoordDen + bbox[2] * NormDen,
       landmark.visibility >>

\* The loop over bbox_list.  acc.exc is the exception that ended the call
\* (cv2.cvtColor raises cv2.error on an empty crop), acc.multi_kps2d the list
\* built so far, acc.processed the bboxes whose crop went to the pose model.
RECURSIVE SingleImgLoop(_, _, _, _, _)
SingleImgLoop(img_arr, bbox_dicts, thr, i, acc) ==
    IF i > Len(bbox_dicts) THEN acc
    ELSE
      LET bbox == bbox_dicts[i].bbox IN
      IF ~BboxPasses(bbox, thr)
      THEN SingleImgLoop(img_arr, bbox_dicts, thr, i + 1, acc)
      ELSE
        LET shape == CropShape(img_arr, bbox) IN
        IF shape[1] = 0 \/ shape[2] = 0
        THEN [acc EXCEPT !.exc = "cv2.error"]
        ELSE
          LET result_mp == PoseProcess(img_arr, Crop(bbox))
              seen == [acc EXCEPT !.processed = Append(@, bbox)]
          IN  IF result_mp = NoPose
              THEN SingleImgLoop(img_arr, bbox_dicts, thr, i + 1, seen)
              ELSE SingleImgLoop(img_arr, bbox_dicts, thr, i + 1,
                     [seen EXCEPT !.multi_kps2d = Append(@,
                        [bbox |-> bbox,
                         keypoints |-> [k \in 1..Len(result_mp) |->
                             RescaleLandmark(result_mp[k], shape, bbox)]])])

InferSingleImg(img_arr, bbox_dicts, thr) ==
    SingleImgLoop(img_arr, bbox_dicts, thr, 1,
                  [exc |-> None, multi_kps2d |-> <<>>, processed |-> <<>>])

----------------------------------------------------------------------------
(* MediapipeEstimator.infer_array *)

\* if bbox[4] > 0.0
ScorePositive(bbox) == bbox[5] > 0

\* bboxes_in_frame: [{'bbox': bbox, 'id': idx}] of the bboxes that pass
\* (idx is 0-based as enumerate gives it).
RECURSIVE BboxesInFrame(_, _)
BboxesInFrame(frame_bboxes, i) ==
    IF i > Len(frame_bboxes) THEN <<>>
    ELSE (IF ScorePositive(frame_bboxes[i])
          THEN <<[bbox |-> frame_bboxes[i], id |-> i - 1]>>
          ELSE <<>>) \o BboxesInFrame(frame_bboxes, i + 1)

FrameKpsResultsStale(n_person, pose_results) ==
    [idx \in 1..n_person |->
        IF idx <= Len(pose_results) THEN pose_results[idx].keypoints
        ELSE IF pose_results # <<>> THEN pose_results[Len(pose_results)].keypoints
        ELSE ZeroKps]

\* frame_kps_results: zeros of len(bbox_list[frame_index]) rows, row idx
\* overwritten by pose_results[idx].
FrameKpsResults(n_person, pose_results) ==
    [idx \in 1..n_person |->
        IF idx <= Len(pose_results) THEN pose_results[idx].keypoints ELSE ZeroKps]

FrameBboxResultsCompact(n_person, pose_results) ==
    [idx \in 1..Len(pose_results) |-> pose_results[idx].bbox]

\* frame_bbox_results, likewise.
FrameBboxResults(n_person, pose_results) ==
    [idx \in 1..n_person |->
        IF idx <= Len(pose_results) THEN pose_results[idx].bbox ELSE ZeroBbox]

\* The loop over frames.  acc.kps / acc.bbox are ret_kps_list / ret_bbox_list,
\* acc.processed the <<frame_index, bbox>> whose crop went to the pose model.
RECURSIVE ArrayLoop(_, _, _, _, _)
ArrayLoop(images, bboxes, thr, frame_index, acc) ==
    IF frame_index > Len(images) THEN acc
    ELSE
      LET img_arr == images[frame_index]
          bboxes_in_frame == BboxesInFrame(bboxes[frame_index], 1)
      IN
      IF Len(bboxes_in_frame) > 0
      THEN
        LET single == InferSingleImg(img_arr, bboxes_in_frame, thr)
            n_person == Len(bboxes[frame_index])
            seen == acc.processed \o
                    [k \in 1..Len(single.processed) |->
                        <<frame_index - 1, single.processed[k]>>]
        IN  IF single.exc # None
            THEN [acc EXCEPT !.exc = single.exc, !.processed = seen]
            ELSE ArrayLoop(images, bboxes, thr, frame_index + 1,
                   [acc EXCEPT
                      !.kps = Append(@, FrameKpsResults(n_person, single.multi_kps2d)),
                      !.bbox = Append(@, FrameBboxResults(n_person, single.multi_kps2d)),
                      !.processed = seen])
      ELSE ArrayLoop(images, bboxes, thr, frame_index + 1,
                   [acc EXCEPT !.kps = Append(@, <<>>), !.bbox = Append(@, <<>>)])

InferArray(images, bboxes, thr) ==
    ArrayLoop(images, bboxes, thr, 1,
              [exc |-> None, kps |-> <<>>, bbox |-> <<>>, processed |-> <<>>])

----------------------------------------------------------------------------
(* MediapipeEstimator.infer_frames.  A frame path is the 0-based number of *)
(* the frame; cv2.imread(path) is image_array[path + 1].                   *)

Imread(images, frame_abs_path) == images[frame_abs_path + 1]

EndIdxShort(n, start_idx, load_batch_size) == Min(n, start_idx + load_batch_size - 1)

\* end_idx = min(len(frame_path_list), start_idx + load_batch_size)
EndIdx(n, start_idx, load_batch_size) == Min(n, start_idx + load_batch_size)

\* if load_batch_size is None: load_batch_size = len(frame_path_list)
BatchSize(frame_path_list, load_batch_size) ==
    IF load_batch_size = NoBatch THEN Len(frame_path_list) ELSE load_batch_size[1]

\* The loop over the chunks.  acc.chunks lists <<start_idx, end_idx>> of the
\* chunks visited; a chunk's pose-model calls are logged with the frame
\* index the frame has in frame_path_list.
RECURSIVE FramesLoop(_, _, _, _, _, _, _)
FramesLoop(images, frame_path_list, bboxes, thr, batch, starts, acc) ==
    IF starts = <<>> THEN acc
    ELSE
      LET start_idx == Head(starts)
          end_idx == EndIdx(Len(frame_path_list), start_idx, batch)
          paths == PySlice(frame_path_list, start_idx, end_idx)
          image_array_list == [k \in 1..Len(paths) |-> Imread(images, paths[k])]
          got == InferArray(image_array_list, PySlice(bboxes, start_idx, end_idx), thr)
          seen == acc.processed \o
                  [k \in 1..Len(got.processed) |->
                      <<got.processed[k][1] + start_idx, got.processed[k][2]>>]
          visited == Append(acc.chunks, <<start_idx, end_idx>>)
      IN  IF got.exc # None
          THEN [acc EXCEPT !.exc = got.exc, !.processed = seen, !.chunks = visited]
          ELSE FramesLoop(images, frame_path_list, bboxes, thr, batch, Tail(starts),
                 [acc EXCEPT !.kps = @ \o got.kps, !.bbox = @ \o got.bbox,
                             !.processed = seen, !.chunks = visited])

InferFrames(images, frame_path_list, bboxes, thr, load_batch_size) ==
    LET batch == BatchSize(frame_path_list, load_batch_size)
        empty == [exc |-> None, kps |-> <<>>, bbox |-> <<>>,
                  processed |-> <<>>, chunks |-> <<>>]
    IN  IF batch = 0
        THEN [empty EXCEPT !.exc = "ValueError"]  \* range() arg 3 must not be zero
        ELSE FramesLoop(images, frame_path_list, bboxes, thr, batch,
                        PyRange(0, Len(frame_path_list), batch), empty)

----------------------------------------------------------------------------
(* The estimator's calls.  The inputs of a call are drawn in the initial   *)
(* state: each input bbox is <<x0, y0, x1, y1, score>>, bbox j of a frame  *)
(* the pixel square [j-1, j] x [0, 1], and the frame's image holds or does *)
(* not hold a pose inside it.                                              *)

\* The landmarks the pose model reports: NKps of them, all different.
Landmarks ==
    [x : 0..NormDen, y : 0..NormDen, visibility : {0, 1}]
LandmarkList(l) ==
    [k \in 1..NKps |->
        [x |-> (l.x + k - 1) % (NormDen + 1),
         y |-> (l.y + 2 * (k - 1)) % (NormDen + 1),
         visibility |-> (l.visibility + k - 1) % 2]]
FoundPose == LandmarkList([x |-> 1, y |-> NormDen, visibility |-> 1])

PersonVals == Scores \X BOOLEAN      \* <<score, a pose is found in the crop>>
FrameSeqs(k) == UNION {[1..m -> PersonVals] : m \in 0..k}
RECURSIVE Inputs(_, _)
Inputs(f, k) ==
    IF f = 0 THEN {<<>>}
    ELSE UNION {{<<p>> \o r : r \in Inputs(f - 1, k - Len(p))} : p \in FrameSeqs(k)}
AllInputs == UNION {Inputs(f, MaxBoxes) : f \in 0..MaxFrames}

PersonBbox(j, score) == <<(j - 1) * CoordDen, 0, j * CoordDen, CoordDen, score>>
FrameImage(persons) ==
    [shape |-> <<1, MaxBoxes>>,
     pose |-> [c \in {<<0, 1, j - 1, j>> : j \in 1..Len(persons)} |->
                  IF persons[c[4]][2] THEN FoundPose ELSE NoPose]]

DatasetIdle ==
    /\ shuffled = FALSE
    /\ image_list = <<>>
    /\ fisheye_params = <<>>
    /\ gt3d = <<>>
    /\ index_mapping = <<>>
    /\ kps2d_paf_json = <<>>
    /\ percep_keypoints2d = <<>>
    /\ n_views = 0
    /\ item = [op |-> None]

InitEstimator ==
    /\ bbox_thr \in Thresholds
    /\ \E inp \in AllInputs :
         /\ image_array = [i \in 1..Len(inp) |-> FrameImage(inp[i])]
         /\ bbox_list = [i \in 1..Len(inp) |->
                           [j \in 1..Len(inp[i]) |-> PersonBbox(j, inp[i][j][1])]]
    /\ ret = [op |-> None]
    /\ DatasetIdle

\* The calls are made by a single-threaded caller: a call is made when no
\* result is pending (ret.op = None), and Return hands the result over.

\* A caller's infer_single_img(image_array[f], dicts of bbox_list[f]).
InferSingleImgCall ==
    /\ ret.op = None
    /\ \E f \in 1..Len(image_array) :
         LET dicts == [j \in 1..Len(bbox_list[f]) |-> [bbox |-> bbox_list[f][j], id |-> j - 1]]
             got == InferSingleImg(image_array[f], dicts, bbox_thr)
         IN  ret' = [op |-> "infer_single_img", frame |-> f - 1, exc |-> got.exc,
                     multi_kps2d |-> got.multi_kps2d, processed |-> got.processed]
    /\ UNCHANGED <<bbox_thr, image_array, bbox_list, ds_vars>>

InferArrayCall ==
    /\ ret.op = None
    /\ LET got == InferArray(image_array, bbox_list, bbox_thr)
       IN  ret' = [op |-> "infer_array", exc |-> got.exc, kps |-> got.kps,
                   bbox |-> got.bbox, processed |-> got.processed]
    /\ UNCHANGED <<bbox_thr, image_array, bbox_list, ds_vars>>

InferFramesCall ==
    /\ ret.op = None
    /\ \E load_batch_size \in {NoBatch} \cup {<<b>> : b \in 1..MaxBatch} :
         LET frame_path_list == [i \in 1..Len(image_array) |-> i - 1]
             got == InferFrames(image_array, frame_path_list, bbox_list,
                                bbox_thr, load_batch_size)
         IN  ret' = [op |-> "infer_frames", load_batch_size |-> load_batch_size,
                     exc |-> got.exc, kps |-> got.kps, bbox |-> got.bbox,
                     processed |-> got.processed, chunks |-> got.chunks]
    /\ UNCHANGED <<bbox_thr, image_array, bbox_list, ds_vars>>

Return ==
    /\ ret.op # None
    /\ ret' = [op |-> None]
    /\ UNCHANGED <<bbox_thr, image_array, bbox_list, ds_vars>>

NextEstimator == InferSingleImgCall \/ InferArrayCall \/ InferFramesCall \/ Return

SpecEstimator == InitEstimator /\ [][NextEstimator]_vars

\* One image of ImgHeight x ImgWidth pixels and one bbox anywhere up to
\* MaxCoord, with any landmarks found in its crop.
InitSingleImg ==
    /\ bbox_thr = DefaultBboxThr
    /\ \E x0, x1, y0, y1 \in 0..(MaxCoord * CoordDen), score \in Scores, l \in Landmarks :
         /\ x0 <= x1 /\ y0 <= y1
         /\ LET bbox == <<x0, y0, x1, y1, score>> IN
            /\ bbox_list = << <<bbox>> >>
            /\ image_array = << [shape |-> <<ImgHeight, ImgWidth>>,
                                 pose |-> [c \in {Crop(bbox)} |-> LandmarkList(l)]] >>
    /\ ret = [op |-> None]
    /\ DatasetIdle

NextSingleImg == InferSingleImgCall \/ Return

SpecSingleImg == InitSingleImg /\ [][NextSingleImg]_vars

----------------------------------------------------------------------------
(* kps2d_paf.json and its conversion.  A file is [convention, data] with   *)
(* data[view][frame] a detection [joints, pafs]: joints[j] the candidates  *)
(* <<x, y, confidence>> of joint class j (x, y normalized), pafs[p] the    *)
(* matrix of affinity scores of connection p.                              *)

Kps2dConvention == "fourdag19"      \* kps2d_convention: str = 'fourdag19'
OtherConvention == "openpose_25"

\* The joint class of the source convention behind each joint class of the
\* target convention (0: none), and likewise for the connections.
JointMapping(src, dst) == IF src = dst THEN <<1, 2>> ELSE <<2, 0, 1>>
PafMapping(src, dst) == <<1>>

\* convert_bottom_up_kps_paf(detections, src, dst, approximate=True): one
\* converted detection per frame, fresh arrays, a joint class without a
\* source left empty.
ConvertBottomUpKpsPaf(detections, src, dst) ==
    LET jm == JointMapping(src, dst)
        pm == PafMapping(src, dst)
    IN  [f \in 1..Len(detections) |->
           [joints |-> [k \in 1..Len(jm) |->
                           IF jm[k] = 0 THEN <<>> ELSE detections[f].joints[jm[k]]],
            pafs |-> [k \in 1..Len(pm) |-> detections[f].pafs[pm[k]]]]]

----------------------------------------------------------------------------
(* BottomUpMviewMpersonDataset.load_perception_2d *)

ResizeJointByWidth(joint, img_size) ==
    [c \in 1..Len(joint) |->
        <<joint[c][1] * (img_size[1] - 1), joint[c][2] * (img_size[1] - 1), joint[c][3]>>]

\* joints[joint_id][:,0] *= img_size[0] - 1; joints[joint_id][:,1] *= img_size[1] - 1
\* for a joint array that is not empty.
ResizeJoint(joint, img_size) ==
    IF Len(joint) > 0
    THEN [c \in 1..Len(joint) |->
            <<joint[c][1] * (img_size[1] - 1), joint[c][2] * (img_size[2] - 1), joint[c][3]>>]
    ELSE joint

\* for frame_id in range(len(detections)): for joint_id in range(len(joints)): ...
ResizeDetections(convert_detections, n_frame, img_size) ==
    [frame_id \in 1..Len(convert_detections) |->
        IF frame_id <= n_frame
        THEN [convert_detections[frame_id] EXCEPT
                !.joints = [joint_id \in 1..Len(@) |-> ResizeJoint(@[joint_id], img_size)]]
        ELSE convert_detections[frame_id]]

\* The body of the loop over scene_idx: mview_kps2d of one scene.
MviewKps2d(json_data, scene_params) ==
    [view_idx \in 1..Len(json_data.data) |->
        LET img_size == <<scene_params[view_idx].width, scene_params[view_idx].height>>
            detections == json_data.data[view_idx]
        IN  ResizeDetections(
              ConvertBottomUpKpsPaf(detections, json_data.convention, Kps2dConvention),
              Len(detections), img_size)]

NScene == Len(image_list)       \* self.n_scene

LoadPerception2d ==
    /\ percep_keypoints2d' =
          [scene_idx \in 1..NScene |->
              MviewKps2d(kps2d_paf_json[scene_idx], fisheye_params[scene_idx])]
    /\ n_views' = (IF NScene = 0 THEN n_views ELSE Len(kps2d_paf_json[NScene].data))
    /\ UNCHANGED <<shuffled, image_list, fisheye_params, gt3d, index_mapping,
                   kps2d_paf_json, item, est_vars>>

----------------------------------------------------------------------------
(* BottomUpMviewMpersonDataset.__getitem__ *)

DatasetLen == Len(index_mapping)                            \* len(self)
ProcessIndexMapping(index) == index_mapping[index + 1]      \* process_index_mapping

EndOfClipIgnoringShuffled(end_of_clip, shuf) == end_of_clip

\* end_of_clip = end_of_clip and not self.shuffled
EndOfClip(end_of_clip, shuf) == end_of_clip /\ ~shuf

KwDataFirstFrame(mview_keypoints2d_list, n_view, frame_idx) ==
    [view_idx \in 1..n_view |-> mview_keypoints2d_list[view_idx][1]]

\* for view_idx in range(n_view):
\*     mview_kps2d_list.append(mview_keypoints2d_list[view_idx][frame_idx])
KwData(mview_keypoints2d_list, n_view, frame_idx) ==
    [view_idx \in 1..n_view |-> mview_keypoints2d_list[view_idx][frame_idx + 1]]

\* img_pipeline(os.path.join(data_root, rela_path)), and the camera getters
ImgPipeline(rela_path) == <<"img", rela_path>>
GetIntrinsic(fisheye_param) == <<"k", fisheye_param.name>>
GetExtrinsicR(fisheye_param) == <<"r", fisheye_param.name>>
GetExtrinsicT(fisheye_param) == <<"t", fisheye_param.name>>

GetItem(index) ==
    IF index >= DatasetLen
    THEN [op |-> "getitem", index |-> index, exc |-> "StopIteration"]
    ELSE
      LET mapped == ProcessIndexMapping(index)
          scene_idx == mapped[1]
          frame_idx == mapped[2]
          img_paths == image_list[scene_idx + 1][frame_idx + 1]
          cams == fisheye_params[scene_idx + 1]
          mview_img_tensor == [v \in 1..Len(img_paths) |-> ImgPipeline(img_paths[v])]
          n_view == Len(mview_img_tensor)
          mview_keypoints2d_list == percep_keypoints2d[scene_idx + 1]
      IN  IF n_view > Len(mview_keypoints2d_list)
          THEN [op |-> "getitem", index |-> index, exc |-> "IndexError"]
          ELSE [op |-> "getitem", index |-> index, exc |-> None,
                mview_img_tensor |-> mview_img_tensor,
                k_tensor |-> [c \in 1..Len(cams) |-> GetIntrinsic(cams[c])],
                r_tensor |-> [c \in 1..Len(cams) |-> GetExtrinsicR(cams[c])],
                t_tensor |-> [c \in 1..Len(cams) |-> GetExtrinsicT(cams[c])],
                kps3d |-> gt3d[scene_idx + 1][frame_idx + 1],
                end_of_clip |-> EndOfClip(mapped[3], shuffled),
                kw_data |-> KwData(mview_keypoints2d_list, n_view, frame_idx)]

\* dataset[index] by a single-threaded caller, for the valid indices and the
\* first one past them.
GetItemCall ==
    /\ item.op = None
    /\ \E index \in 0..DatasetLen : item' = GetItem(index)
    /\ UNCHANGED <<shuffled, image_list, fisheye_params, gt3d, index_mapping,
                   kps2d_paf_json, percep_keypoints2d, n_views, est_vars>>

ReturnItem ==
    /\ item.op # None
    /\ item' = [op |-> None]
    /\ UNCHANGED <<shuffled, image_list, fisheye_params, gt3d, index_mapping,
                   kps2d_paf_json, percep_keypoints2d, n_views, est_vars>>

----------------------------------------------------------------------------
(* The dataset after construction.  Scene s has frames[s] frames; every    *)
(* scene has n_cam cameras, of different sizes, and n_img <= n_cam image   *)
(* paths per frame.  The detection of kps2d_paf.json for (scene, view,     *)
(* frame) carries a tag of the three in its affinity score, so that no two *)
(* detections are equal.                                                   *)

LoadCamSize == <<3, 2>>                     \* <<width, height>> of camera 0 of scene 0
CamSizes == {LoadCamSize, <<2, 4>>}         \* the same, as drawn for __getitem__
Camera(s, v, base) ==
    [name |-> <<s, v>>, width |-> base[1] + s + v, height |-> base[2] + s + 3 * v]
ImagePath(s, v, f) == <<"scene", s, "view", v, "frame", f>>
Tag(s, v, f) == 100 * s + 10 * v + f + 1
TaggedDetection(s, v, f) ==
    [joints |-> << << <<1, NormDen, 1>> >>, << <<NormDen, 1, 0>> >> >>,
     pafs |-> << << <<Tag(s, v, f)>> >> >>]

\* init_index_mapping: every frame of every scene once, scene after scene,
\* the last frame of a scene flagged; shuffled, in another order.
RECURSIVE InOrder(_, _)
InOrder(frames, s) ==
    IF s > Len(frames) THEN <<>>
    ELSE [f \in 1..frames[s] |-> <<s - 1, f - 1, f = frames[s]>>] \o InOrder(frames, s + 1)
Rotate(seq, k) == [i \in 1..Len(seq) |-> seq[((i - 1 + k) % Len(seq)) + 1]]
Reverse(seq) == [i \in 1..Len(seq) |-> seq[Len(seq) + 1 - i]]
Shuffles(seq) == {Rotate(seq, k) : k \in 0..Len(seq) - 1} \cup {Reverse(seq)}

EstimatorIdle ==
    /\ bbox_thr = DefaultBboxThr
    /\ image_array = <<>>
    /\ bbox_list = <<>>
    /\ ret = [op |-> None]

Layout(frames, n_cam, n_img, base, jsons) ==
    /\ image_list = [s \in 1..Len(frames) |-> [f \in 1..frames[s] |->
                       [v \in 1..n_img |-> ImagePath(s - 1, v - 1, f - 1)]]]
    /\ fisheye_params = [s \in 1..Len(frames) |->
                           [v \in 1..n_cam |-> Camera(s - 1, v - 1, base)]]
    /\ gt3d = [s \in 1..Len(frames) |-> [f \in 1..frames[s] |-> <<"kps3d", s - 1, f - 1>>]]
    /\ kps2d_paf_json = jsons

TaggedJson(frames, n_cam, convention) ==
    [s \in 1..Len(frames) |->
        [convention |-> convention,
         data |-> [v \in 1..n_cam |-> [f \in 1..frames[s] |->
                     TaggedDetection(s - 1, v - 1, f - 1)]]]]

InitDataset ==
    /\ shuffled \in BOOLEAN
    /\ \E n_scene \in 1..MaxScenes, n_cam \in 1..MaxViews, base \in CamSizes,
          convention \in {Kps2dConvention, OtherConvention} :
         \E frames \in [1..n_scene -> 1..MaxSceneFrames], n_img \in 1..n_cam :
            LET jsons == TaggedJson(frames, n_cam, convention) IN
            /\ Layout(frames, n_cam, n_img, base, jsons)
            /\ percep_keypoints2d =
                  [s \in 1..n_scene |->
                      MviewKps2d(jsons[s], [v \in 1..n_cam |-> Camera(s - 1, v - 1, base)])]
            /\ n_views = n_cam
            /\ index_mapping \in (IF shuffled THEN Shuffles(InOrder(frames, 1))
                                             ELSE {InOrder(frames, 1)})
    /\ item = [op |-> None]
    /\ EstimatorIdle

NextDataset == GetItemCall \/ ReturnItem

SpecDataset == InitDataset /\ [][NextDataset]_vars

\* The dataset before load_perception_2d ran.  One detection of the files,
\* that of (s0, v0, f0), is drawn freely: up to MaxCands joint candidates in
\* its two joint classes and any affinity scores between them.
CandSamples == {<<1, NormDen, 1>>, <<NormDen, 1, 0>>}
JointArrays(k) == UNION {[1..m -> CandSamples] : m \in 0..k}
FreeDetections ==
    UNION {UNION {{[joints |-> <<a1, a2>>, pafs |-> <<paf>>] :
                      paf \in [1..Len(a1) -> [1..Len(a2) -> {0, 1}]]} :
                  a2 \in JointArrays(MaxCands - Len(a1))} :
           a1 \in JointArrays(MaxCands)}

InitLoad ==
    /\ shuffled = FALSE
    /\ \E n_scene \in 1..MaxScenes, n_cam \in 1..MaxViews, n_frame \in 1..MaxSceneFrames,
          convention \in {Kps2dConvention, OtherConvention} :
         \E s0 \in 1..n_scene, v0 \in 1..n_cam, f0 \in 1..n_frame, free \in FreeDetections :
            LET frames == [s \in 1..n_scene |-> n_frame]
                tagged == TaggedJson(frames, n_cam, convention)
            IN  /\ Layout(frames, n_cam, n_cam, LoadCamSize,
                          [tagged EXCEPT ![s0].data[v0][f0] = free])
                /\ index_mapping = InOrder(frames, 1)
    /\ percep_keypoints2d = <<>>
    /\ n_views = 0
    /\ item = [op |-> None]
    /\ EstimatorIdle

NextLoad == LoadPerception2d

SpecLoad == InitLoad /\ [][NextLoad]_vars

----------------------------------------------------------------------------
(* Properties of the estimator *)

Range(seq) == {seq[i] : i \in DOMAIN seq}
Returned(op) == ret.op = op /\ ret.exc = None

\* C3: infer_array returns a keypoints list and a bbox list with one entry
\* per input frame, entry i about frame i: in every frame both entries have
\* the same number of persons, at most len(bbox_list[i]), and every bbox row
\* that is not zero is a bbox of frame i whose crop went to the pose model.
C3_InferArrayShapes ==
    Returned("infer_array") =>
      /\ Len(ret.kps) = Len(image_array)
      /\ Len(ret.bbox) = Len(image_array)
      /\ \A i \in 1..Len(image_array) :
           /\ Len(ret.kps[i]) = Len(ret.bbox[i])
           /\ Len(ret.kps[i]) <= Len(bbox_list[i])
           /\ \A idx \in 1..Len(ret.bbox[i]) :
                /\ Len(ret.kps[i][idx]) = NKps
                /\ ret.bbox[i][idx] # ZeroBbox =>
                     /\ ret.bbox[i][idx] \in Range(bbox_list[i])
                     /\ <<i - 1, ret.bbox[i][idx]>> \in Range(ret.processed)

C3_Witness ==
    /\ Returned("infer_array")
    /\ Len(image_array) >= 2
    /\ \E i, k \in 1..Len(image_array) :
         /\ Len(ret.bbox[i]) = 2
         /\ ret.bbox[i][1] # ZeroBbox
         /\ ret.bbox[i][2] = ZeroBbox
         /\ Len(bbox_list[k]) = 0 /\ ret.kps[k] = <<>>

\* The bboxes whose crop a call passed to the pose model and the bbox rows
\* it returned, as <<frame_index, bbox>>.
Processed ==
    IF ret.op = "infer_single_img"
    THEN {<<ret.frame, ret.processed[k]>> : k \in 1..Len(ret.processed)}
    ELSE Range(ret.processed)
Contributed ==
    IF ret.op = "infer_single_img"
    THEN {<<ret.frame, ret.multi_kps2d[k].bbox>> : k \in 1..Len(ret.multi_kps2d)}
    ELSE UNION {{<<i - 1, ret.bbox[i][idx]>> : idx \in 1..Len(ret.bbox[i])} :
                  i \in 1..Len(ret.bbox)}
InputBboxes ==
    UNION {{<<i - 1, bbox_list[i][j]>> : j \in 1..Len(bbox_list[i])} :
             i \in 1..Len(bbox_list)}

\* C4: bboxes whose score is lower than bbox_thr are ignored, for every
\* bbox_thr (negative ones too): a crop goes to the pose model only if the
\* bbox's score is strictly greater than bbox_thr, no bbox with a score below
\* bbox_thr contributes a row to what infer_single_img or infer_array return,
\* and under infer_array a bbox goes to the pose model exactly when its
\* score exceeds both 0.0 and bbox_thr.
C4_ThresholdFilter ==
    ret.op # None =>
      /\ \A p \in Processed : p[2][5] > bbox_thr
      /\ \A b \in InputBboxes : b[2][5] < bbox_thr => b \notin Contributed
      /\ ret.op = "infer_array" =>
           \A b \in InputBboxes :
              b \in Processed <=> (b[2][5] > 0 /\ b[2][5] > bbox_thr)

C4_Witness ==
    /\ Returned("infer_array")
    /\ bbox_thr < 0
    /\ \E b, c \in InputBboxes :
         /\ b[2][5] = 0 /\ b \notin Processed
         /\ c[2][5] > 0 /\ c \in Processed /\ c \in Contributed

\* The bboxes of frame i (1-based) in which infer_array has a pose detected.
Detections(i) ==
    {j \in 1..Len(bbox_list[i]) :
        /\ bbox_list[i][j][5] > 0
        /\ bbox_list[i][j][5] > bbox_thr
        /\ PoseProcess(image_array[i], Crop(bbox_list[i][j])) # NoPose}

\* C7: a confidence of zero marks an invalid keypoint: in every frame that
\* infer_array returns, each person row that was not filled from a
\* successful pose detection is zero throughout, keypoints (x = y =
\* confidence = 0) and bbox row alike.
C7_UnfilledRowsZero ==
    Returned("infer_array") =>
      \A i \in 1..Len(ret.kps) :
         \A idx \in 1..Len(ret.kps[i]) :
            idx > Cardinality(Detections(i)) =>
               /\ \A k \in 1..NKps : ret.kps[i][idx][k] = <<0, 0, 0>>
               /\ ret.bbox[i][idx] = ZeroBbox

C7_Witness ==
    /\ Returned("infer_array")
    /\ \E i \in 1..Len(ret.kps) :
         /\ Len(ret.kps[i]) = 2
         /\ Cardinality(Detections(i)) = 1
         /\ \E k \in 1..NKps : ret.kps[i][1][k][3] # 0
         /\ ret.kps[i][2] = ZeroKps

\* ceil(n / b)
CeilDiv(n, b) == (n + b - 1) \div b

\* C5: infer_frames with a load_batch_size >= 1 visits the frames in chunks:
\* the chunks follow one another from 0 to len(frame_path_list) without gap
\* or overlap, none is empty or longer than load_batch_size, there are
\* ceil(n / load_batch_size) of them, each goes with the same slice of
\* bbox_list, and what is returned is what one infer_array over all the
\* frames returns.
C5_ChunksCoverOnce ==
    (Returned("infer_frames") /\ ret.load_batch_size # NoBatch) =>
      LET n == Len(image_array)
          b == ret.load_batch_size[1]
          chunks == ret.chunks
          whole == InferArray(image_array, bbox_list, bbox_thr)
      IN  /\ Len(chunks) = CeilDiv(n, b)
          /\ \A k \in 1..Len(chunks) :
               /\ chunks[k][1] = (IF k = 1 THEN 0 ELSE chunks[k - 1][2])
               /\ chunks[k][1] < chunks[k][2]
               /\ chunks[k][2] - chunks[k][1] <= b
          /\ (n > 0 => chunks[Len(chunks)][2] = n)
          /\ Processed \subseteq InputBboxes
          /\ ret.kps = whole.kps
          /\ ret.bbox = whole.bbox
          /\ ret.processed = whole.processed

C5_Witness ==
    /\ Returned("infer_frames")
    /\ ret.load_batch_size = <<2>>
    /\ Len(image_array) = 3
    /\ ret.chunks = << <<0, 2>>, <<2, 3>> >>
    /\ ret.bbox[3] # <<>> /\ ret.bbox[3][1] # ZeroBbox

\* C6: infer_frames with load_batch_size=None loads all the frames at once:
\* for every frame_path_list, the empty one too, it returns normally after
\* at most one pass, with keypoints and bbox lists of len(frame_path_list).
C6_NoneLoadsAll ==
    (ret.op = "infer_frames" /\ ret.load_batch_size = NoBatch) =>
      /\ ret.exc = None
      /\ Len(ret.chunks) <= 1
      /\ \A k \in 1..Len(ret.chunks) : ret.chunks[k] = <<0, Len(image_array)>>
      /\ Len(ret.kps) = Len(image_array)
      /\ Len(ret.bbox) = Len(image_array)

\* The same for the frame_path_list that are not empty.
C6_NoneLoadsAllNonEmpty ==
    Len(image_array) > 0 => C6_NoneLoadsAll
\* C10: infer_single_img puts the landmarks back into image coordinates:
\* for a bbox with integer corners inside the image and a landmark (lx, ly)
\* of [0,1] x [0,1] the keypoint is (x0 + lx*(x1-x0), y0 + ly*(y1-y0)), so it
\* lies in the bbox, (0,0) at the top-left and (1,1) at the bottom-right
\* corner, and the confidence is the landmark's visibility.
IntegerBboxInside(bbox) ==
    /\ \A c \in 1..4 : bbox[c] % CoordDen = 0
    /\ 0 <= bbox[1] /\ bbox[1] < bbox[3] /\ bbox[3] <= ImgWidth * CoordDen
    /\ 0 <= bbox[2] /\ bbox[2] < bbox[4] /\ bbox[4] <= ImgHeight * CoordDen

C10_LandmarkInImageCoordinates ==
    Returned("infer_single_img") =>
      \A p \in 1..Len(ret.multi_kps2d) :
         LET bbox == ret.multi_kps2d[p].bbox
             kps == ret.multi_kps2d[p].keypoints
             lms == PoseProcess(image_array[ret.frame + 1], Crop(bbox))
         IN  IntegerBboxInside(bbox) =>
               /\ Len(kps) = Len(lms)
               /\ \A k \in 1..Len(kps) :
                    /\ kps[k][1] = bbox[1] * NormDen + lms[k].x * (bbox[3] - bbox[1])
                    /\ kps[k][2] = bbox[2] * NormDen + lms[k].y * (bbox[4] - bbox[2])
                    /\ kps[k][3] = lms[k].visibility
                    /\ bbox[1] * NormDen <= kps[k][1]
                    /\ kps[k][1] <= bbox[3] * NormDen
                    /\ bbox[2] * NormDen <= kps[k][2]
                    /\ kps[k][2] <= bbox[4] * NormDen
                    /\ (lms[k].x = 0 /\ lms[k].y = 0) =>
                          (kps[k][1] = bbox[1] * NormDen /\ kps[k][2] = bbox[2] * NormDen)
                    /\ (lms[k].x = NormDen /\ lms[k].y = NormDen) =>
                          (kps[k][1] = bbox[3] * NormDen /\ kps[k][2] = bbox[4] * NormDen)

C10_Witness ==
    /\ Returned("infer_single_img")
    /\ Len(ret.multi_kps2d) = 1
    /\ LET bbox == ret.multi_kps2d[1].bbox
           kps == ret.multi_kps2d[1].keypoints
       IN  /\ IntegerBboxInside(bbox)
           /\ bbox[2] > 0
           /\ \E k \in 1..Len(kps) :
                /\ kps[k][3] = 1
                /\ bbox[1] * NormDen < kps[k][1]
                /\ kps[k][1] < bbox[3] * NormDen

----------------------------------------------------------------------------
(* Properties of the dataset *)

Got == item.op = "getitem" /\ item.exc = None

C2_ShuffledAlwaysEndOfClip ==
    (Got /\ shuffled) => item.end_of_clip

C8_RescaleKeepsShape ==
    percep_keypoints2d # <<>> =>
      /\ Len(percep_keypoints2d) = Len(kps2d_paf_json)
      /\ \A s \in 1..Len(kps2d_paf_json) :
           /\ Len(percep_keypoints2d[s]) = Len(kps2d_paf_json[s].data)
           /\ \A v \in 1..Len(kps2d_paf_json[s].data) :
                LET converted == ConvertBottomUpKpsPaf(kps2d_paf_json[s].data[v],
                                    kps2d_paf_json[s].convention, Kps2dConvention)
                    stored == percep_keypoints2d[s][v]
                    cam == fisheye_params[s][v]
                IN  /\ Len(stored) = Len(converted)
                    /\ \A f \in 1..Len(converted) :
                         /\ stored[f].pafs = converted[f].pafs
                         /\ Len(stored[f].joints) = Len(converted[f].joints)
                         /\ \A j \in 1..Len(converted[f].joints) :
                              /\ Len(stored[f].joints[j]) = Len(converted[f].joints[j])
                              /\ \A c \in 1..Len(converted[f].joints[j]) :
                                   stored[f].joints[j][c] =
                                     << converted[f].joints[j][c][1] * (cam.width - 1),
                                        converted[f].joints[j][c][2] * (cam.height - 1),
                                        converted[f].joints[j][c][3] >>

C8_Witness ==
    /\ percep_keypoints2d # <<>>
    /\ Len(percep_keypoints2d[1]) = 2
    /\ \E f \in 1..Len(percep_keypoints2d[1][2]) :
         LET joints == percep_keypoints2d[1][2][f].joints IN
         /\ Len(joints) = 3
         /\ joints[2] = <<>>
         /\ Len(joints[3]) = 2
         /\ joints[3][1][1] > NormDen
         /\ joints[3][1][2] > joints[3][1][1]

====
